---- MODULE Spec2Model ----
(***************************************************************************)
(* The two-factor login of src/app.js: the process-wide otpStore, the      *)
(* per-client express session, the five request handlers that read or      *)
(* write them, the completion of the OTP e-mail and the periodic clean-up. *)
(*                                                                         *)
(* Node runs every handler to completion on one thread, so each handler is *)
(* one atomic action.  The only handler with an asynchronous gap is        *)
(* POST /login, between the call of sendOTPEmail and its .then callback.   *)
(* The callback reads nothing but the boolean the promise resolved to and  *)
(* writes neither the session nor otpStore: it only sends the response.    *)
(* It therefore commutes with every other handler, and the model runs it   *)
(* in the same step as the synchronous part, the boolean being an input.   *)
(*                                                                         *)
(* req.session is the session object of the client: what a handler writes  *)
(* to it is what the client's next request reads.                          *)
(*                                                                         *)
(* Strings are TLA+ strings (Len and \o are what the code uses of them);   *)
(* the password is a sequence of one-character strings because the regular *)
(* expression of line 157 looks at its characters.  Time is Date.now() in  *)
(* milliseconds.                                                           *)
(***************************************************************************)
EXTENDS Naturals, Sequences, FiniteSets, TLC

VARIABLES now, nextSweep, otpStore, session, issued, valids, used, last

vars == <<now, nextSweep, otpStore, session, issued, valids, used, last>>

(***************************************************************************)
(* Bounds of the model.                                                    *)
(***************************************************************************)
\* number of POST /login requests that pass validation in one behaviour
MaxIssue == 2
\* Math.random() is drawn from the fractions n / RandScale, 0 <= n < RandScale
RandScale == 9000

\* line 174 (expiry of a code) and line 277 (period of the clean-up), in ms
OTP_TTL == 60000
SWEEP_PERIOD == 60000

\* null / undefined, and a present value
None == <<>>
Some(v) == <<v>>

Sessions == {"s1", "s2"}

\* the (username, password) pairs a client may post to /login: the password
\* is a sequence of characters.  Usernames of length 0, 19 and 20;
\* passwords that are empty, four digits, three digits, five digits and four
\* characters with a letter among them
GoodPw == <<"1", "2", "3", "4">>
Credentials ==
    { <<"aaaaaaaaaaaaaaaaaaa", GoodPw>>,
      <<"", GoodPw>>, <<"aaaaaaaaaaaaaaaaaaaa", GoodPw>>,
      <<"aaaaaaaaaaaaaaaaaaa", <<>>>>, <<"aaaaaaaaaaaaaaaaaaa", <<"1", "2", "a", "4">>>>,
      <<"aaaaaaaaaaaaaaaaaaa", <<"1", "2", "3">>>>, <<"aaaaaaaaaaaaaaaaaaa", <<"1", "2", "3", "4", "5">>>> }

\* values Math.random() takes in the model, as numerators over RandScale
RandomDraws == {0, RandScale - 1}

\* codes a client may post to /verify-otp
SubmittedCodes == {"1000", "9999"}

\* the instants the clock visits: the start, the instant a code stored at the
\* start expires, and one millisecond after it
Instants == {0, OTP_TTL, OTP_TTL + 1}

(***************************************************************************)
(* Pure helpers of the handlers.                                           *)
(***************************************************************************)
Digits == <<"0", "1", "2", "3", "4", "5", "6", "7", "8", "9">>

\* Number.prototype.toString and the template literal's formatting of
\* Date.now(): the decimal digits of n, most significant first
RECURSIVE DecStr(_)
DecStr(n) == IF n < 10 THEN Digits[n + 1]
             ELSE DecStr(n \div 10) \o Digits[(n % 10) + 1]

\* generateOTP with Math.random() = r / RandScale:
\* Math.floor(1000 + Math.random() * 9000).toString()
generateOTP(r) == DecStr((1000 * RandScale + r * 9000) \div RandScale)

\* `${username}_${Date.now()}`
OtpKey(username, t) == username \o "_" \o DecStr(t)

\* /^\d{4}$/.test(password)
FourDigits(password) ==
    /\ Len(password) = 4
    /\ \A i \in 1 .. 4 : \E d \in 1 .. 10 : password[i] = Digits[d]

\* the length check of line 153 off by one
LoginGuardOffByOne(username, password) ==
    IF username = "" \/ password = <<>> THEN "required"
    ELSE IF Len(username) > 20 THEN "usernameTooLong"
    ELSE IF ~FourDigits(password) THEN "passwordFormat"
    ELSE "ok"

\* the three validation returns of POST /login; "ok" when none is taken
LoginGuard(username, password) ==
    IF username = "" \/ password = <<>> THEN "required"
    ELSE IF Len(username) >= 20 THEN "usernameTooLong"
    ELSE IF ~FourDigits(password) THEN "passwordFormat"
    ELSE "ok"

\* otpStore.set(key, rec), otpStore.delete(key), otpStore.get(key) on a Map
StoreSet(store, key, rec) ==
    [k \in DOMAIN store \cup {key} |-> IF k = key THEN rec ELSE store[k]]

StoreDelete(store, key) == [k \in DOMAIN store \ {key} |-> store[k]]

StoreHas(store, key) == key \in DOMAIN store

\* the comparison of the expiry check turned around
IsExpiredReversed(t, rec) == t < rec.expires

\* the expiry check taking the instant of expiry as expired
IsExpiredAtExpiry(t, rec) == t >= rec.expires

\* Date.now() > storedOTPData.expires  /  now > value.expires
IsExpired(t, rec) == t > rec.expires

\* a session the store has no data for (new client, or after destroy)
EmptySession == [pendingAuth |-> None, otpKey |-> None, authenticated |-> FALSE,
                 username |-> None, loginTime |-> None]

\* the phase a session is in, as the handlers branch on it: requireAuth and
\* the GET routes test authenticated first, /verify-otp tests pendingAuth
Phase(sess) ==
    IF sess.authenticated THEN "authenticated"
    ELSE IF sess.pendingAuth # None THEN "pendingSecondFactor"
    ELSE "anonymous"

(***************************************************************************)
(* The handlers as functions of what they read.                            *)
(***************************************************************************)
\* the record stored with the creation time as its expiry
NewRecordNoWindow(username, r, t) ==
    [otp |-> generateOTP(r), expires |-> t, username |-> username]

\* the record POST /login stores (lines 172-176)
NewRecord(username, r, t) ==
    [otp |-> generateOTP(r), expires |-> t + OTP_TTL, username |-> username]

\* the session POST /login leaves behind when validation passes
\* (lines 162-165 and 178)
SessionAfterLogin(sess, username, t) ==
    [sess EXCEPT !.pendingAuth = Some([username |-> username, timestamp |-> t]),
                 !.otpKey = Some(OtpKey(username, t))]

\* the branches of POST /verify-otp without the comparison of the codes
VerifyOutcomeAnyCode(sess, store, code, t) ==
    IF sess.pendingAuth = None \/ sess.otpKey = None THEN "NoPending"
    ELSE IF ~StoreHas(store, sess.otpKey[1]) THEN "NotFound"
    ELSE IF IsExpired(t, store[sess.otpKey[1]]) THEN "Expired"
    ELSE "Valid"

\* the branch POST /verify-otp takes (lines 205-226)
VerifyOutcome(sess, store, code, t) ==
    IF sess.pendingAuth = None \/ sess.otpKey = None THEN "NoPending"
    ELSE IF ~StoreHas(store, sess.otpKey[1]) THEN "NotFound"
    ELSE IF IsExpired(t, store[sess.otpKey[1]]) THEN "Expired"
    ELSE IF code # store[sess.otpKey[1]].otp THEN "Mismatch"
    ELSE "Valid"

\* the success branch without its otpStore.delete
StoreAfterVerifyKeepsValid(sess, store, outcome) ==
    IF outcome = "Expired" THEN StoreDelete(store, sess.otpKey[1]) ELSE store

\* the store POST /verify-otp leaves behind (lines 217 and 236)
StoreAfterVerify(sess, store, outcome) ==
    IF outcome \in {"Expired", "Valid"} THEN StoreDelete(store, sess.otpKey[1])
    ELSE store

\* the pending attempt dropped on a wrong code as it is on an expired one
SessionAfterVerifyDropsOnMismatch(sess, outcome, t) ==
    IF outcome \in {"Expired", "Mismatch"}
    THEN [sess EXCEPT !.pendingAuth = None, !.otpKey = None]
    ELSE IF outcome = "Valid"
    THEN [sess EXCEPT !.authenticated = TRUE,
                      !.username = Some(sess.pendingAuth[1].username),
                      !.loginTime = Some(t),
                      !.pendingAuth = None, !.otpKey = None]
    ELSE sess

\* the success branch without its clean-up of the pending attempt
SessionAfterVerifyKeepsPending(sess, outcome, t) ==
    IF outcome = "Expired"
    THEN [sess EXCEPT !.pendingAuth = None, !.otpKey = None]
    ELSE IF outcome = "Valid"
    THEN [sess EXCEPT !.authenticated = TRUE,
                      !.username = Some(sess.pendingAuth[1].username),
                      !.loginTime = Some(t)]
    ELSE sess

\* the session POST /verify-otp leaves behind (lines 218-219, 229-238)
SessionAfterVerify(sess, outcome, t) ==
    IF outcome = "Expired"
    THEN [sess EXCEPT !.pendingAuth = None, !.otpKey = None]
    ELSE IF outcome = "Valid"
    THEN [sess EXCEPT !.authenticated = TRUE,
                      !.username = Some(sess.pendingAuth[1].username),
                      !.loginTime = Some(t),
                      !.pendingAuth = None, !.otpKey = None]
    ELSE sess

\* the response of the .then callback of POST /login (lines 182-189)
LoginResponse(success) == IF success THEN "redirectVerify" ELSE "sendFailed"

\* a guard that lets a session through once it has passed the first factor
RequireAuthOrPending(sess) == sess.authenticated \/ sess.pendingAuth # None

\* requireAuth
RequireAuth(sess) == sess.authenticated

\* a logout that only drops the authenticated flag
SessionAfterLogoutFlagOnly(sess) == [sess EXCEPT !.authenticated = FALSE]

\* the session after req.session.destroy (line 254): no data is left
SessionAfterLogout(sess) == EmptySession

\* a clean-up that stops after the first record it deletes
SweepStoreFirstOnly(store, t) ==
    IF \E j \in DOMAIN store : IsExpired(t, store[j])
    THEN StoreDelete(store, CHOOSE j \in DOMAIN store : IsExpired(t, store[j]))
    ELSE store

\* the store after the setInterval callback has run at time t
SweepStore(store, t) ==
    [k \in {j \in DOMAIN store : ~IsExpired(t, store[j])} |-> store[k]]

(***************************************************************************)
(* State.                                                                  *)
(*   now        Date.now()                                                 *)
(*   nextSweep  the instant the setInterval timer is next due              *)
(*   otpStore   the Map of line 86: key -> [otp, expires, username]        *)
(*   session    req.session of each client                                 *)
(* History, written by the actions and read by no handler:                 *)
(*   issued     how many records POST /login has stored so far             *)
(*   valids     for each key of otpStore, how many POST /verify-otp have   *)
(*              taken the success branch on the record now under it        *)
(*   used       the <<key, code>> of the first POST /verify-otp that took  *)
(*              the success branch, None before there was one              *)
(*   last       the request or timer step that produced this state         *)
(***************************************************************************)
Event(op, s, outcome, user, pw, code, key) ==
    [op |-> op, sess |-> s, outcome |-> outcome, user |-> user, pw |-> pw,
     code |-> code, key |-> key]

Init ==
    /\ now = 0
    /\ nextSweep = SWEEP_PERIOD
    /\ otpStore = << >>
    /\ session = [s \in Sessions |-> EmptySession]
    /\ issued = 0
    /\ valids = << >>
    /\ used = None
    /\ last = Event("start", "", "", "", <<>>, "", None)

\* POST /login that returns at one of the validation checks (lines 149-159):
\* the handler has not touched req.session when it returns there, so the
\* event names no session
PostLoginRejected(username, password) ==
    /\ LoginGuard(username, password) # "ok"
    /\ last' = Event("login", "", LoginGuard(username, password), username, password, "", None)
    /\ UNCHANGED <<now, nextSweep, otpStore, session, issued, valids, used>>

\* POST /login past validation (lines 161-189).  success is what
\* sendOTPEmail resolved to (lines 107-114): TRUE when transporter.sendMail
\* fulfilled, FALSE when it threw.
PostLoginAccepted(s, username, password, r, success) ==
    /\ LoginGuard(username, password) = "ok"
    /\ issued < MaxIssue
    /\ session' = [session EXCEPT ![s] = SessionAfterLogin(session[s], username, now)]
    /\ otpStore' = StoreSet(otpStore, OtpKey(username, now), NewRecord(username, r, now))
    /\ issued' = issued + 1
    /\ valids' = StoreSet(valids, OtpKey(username, now), 0)
    /\ last' = Event("login", s, LoginResponse(success), username, password, "",
                     Some(OtpKey(username, now)))
    /\ UNCHANGED <<now, nextSweep, used>>

\* POST /verify-otp (lines 201-241)
PostVerifyOtp(s, code) ==
    LET outcome == VerifyOutcome(session[s], otpStore, code, now)
        key == session[s].otpKey
    IN  /\ otpStore' = StoreAfterVerify(session[s], otpStore, outcome)
        /\ session' = [session EXCEPT ![s] = SessionAfterVerify(session[s], outcome, now)]
        /\ valids' = [k \in DOMAIN otpStore' |->
                         IF outcome = "Valid" /\ k = key[1] THEN valids[k] + 1 ELSE valids[k]]
        /\ used' = IF outcome = "Valid" /\ used = None THEN Some(<<key[1], code>>) ELSE used
        /\ last' = Event("verify", s, outcome, "", <<>>, code, key)
        /\ UNCHANGED <<now, nextSweep, issued>>

\* GET /dashboard behind requireAuth (lines 118-124, 244-249)
GetDashboard(s) ==
    /\ last' = Event("dashboard", s, IF RequireAuth(session[s]) THEN "dashboard" ELSE "redirectLogin",
                     "", <<>>, "", None)
    /\ UNCHANGED <<now, nextSweep, otpStore, session, issued, valids, used>>

\* POST /logout (lines 252-262): req.session.destroy
PostLogout(s) ==
    /\ session' = [session EXCEPT ![s] = SessionAfterLogout(session[s])]
    /\ last' = Event("logout", s, "redirectLogin", "", <<>>, "", None)
    /\ UNCHANGED <<now, nextSweep, otpStore, issued, valids, used>>

\* the setInterval callback (lines 265-277), run when the timer is due
Sweep ==
    /\ now >= nextSweep
    /\ otpStore' = SweepStore(otpStore, now)
    /\ valids' = [k \in DOMAIN otpStore' |-> valids[k]]
    /\ nextSweep' = now + SWEEP_PERIOD
    /\ last' = Event("sweep", "", "", "", <<>>, "", None)
    /\ UNCHANGED <<now, session, issued, used>>

\* the clock moves on, to a later one of the instants of the model
Tick ==
    /\ \E t \in Instants : t > now /\ now' = t
    /\ last' = Event("tick", "", "", "", <<>>, "", None)
    /\ UNCHANGED <<nextSweep, otpStore, session, issued, valids, used>>

Next ==
    \/ \E c \in Credentials : PostLoginRejected(c[1], c[2])
    \/ \E s \in Sessions, c \in Credentials, r \in RandomDraws, ok \in BOOLEAN :
          PostLoginAccepted(s, c[1], c[2], r, ok)
    \/ \E s \in Sessions, c \in SubmittedCodes : PostVerifyOtp(s, c)
    \/ \E s \in Sessions : GetDashboard(s)
    \/ \E s \in Sessions : PostLogout(s)
    \/ Sweep
    \/ Tick

Spec == Init /\ [][Next]_vars

(***************************************************************************)
(* The registry on its own.  SpecStore starts from registries the server   *)
(* can hold after up to two logins of one user, made at the instants 0 and *)
(* 1, with each of the two sessions possibly waiting on one of the keys,   *)
(* at an instant at or after the first clean-up is due, and runs the       *)
(* clean-up, the verifications and the clock from there.                   *)
(***************************************************************************)
StoreUser == "aaaaaaaaaaaaaaaaaaa"
StoreIssueTimes == {0, 1}
StoreNows == {OTP_TTL, OTP_TTL + 1, OTP_TTL + 2}

\* the registries: every key absent or holding one of the records POST /login
\* can have stored under it
StoreChoices ==
    UNION { [ks -> RandomDraws] : ks \in SUBSET StoreIssueTimes }

StoreOf(choice) ==
    LET keys == { OtpKey(StoreUser, t) : t \in DOMAIN choice }
        timeOf(k) == CHOOSE t \in DOMAIN choice : OtpKey(StoreUser, t) = k
    IN  [k \in keys |-> NewRecord(StoreUser, choice[timeOf(k)], timeOf(k))]

\* the sessions: no data, or waiting on the key of a login made at t
StoreSessions ==
    {EmptySession} \cup { SessionAfterLogin(EmptySession, StoreUser, t) : t \in StoreIssueTimes }

InitStore ==
    /\ now \in StoreNows
    /\ nextSweep = SWEEP_PERIOD
    /\ \E choice \in StoreChoices :
          /\ otpStore = StoreOf(choice)
          /\ issued = Cardinality(DOMAIN choice)
    /\ session \in [Sessions -> StoreSessions]
    /\ valids = [k \in DOMAIN otpStore |-> 0]
    /\ used = None
    /\ last = Event("start", "", "", "", <<>>, "", None)

NextStore ==
    \/ \E s \in Sessions, c \in SubmittedCodes : PostVerifyOtp(s, c)
    \/ Sweep
    \/ Tick

SpecStore == InitStore /\ [][NextStore]_vars

(***************************************************************************)
(* Two users on one browser.  SpecUsers runs every handler for the session *)
(* s1 with the credentials of two users whose usernames pass validation.   *)
(***************************************************************************)
UsersSessions == {"s1"}
UsersCredentials == Credentials \cup {<<"bob", GoodPw>>}

NextUsers ==
    \/ \E c \in UsersCredentials : PostLoginRejected(c[1], c[2])
    \/ \E s \in UsersSessions, c \in UsersCredentials, r \in RandomDraws, ok \in BOOLEAN :
          PostLoginAccepted(s, c[1], c[2], r, ok)
    \/ \E s \in UsersSessions, c \in SubmittedCodes : PostVerifyOtp(s, c)
    \/ \E s \in UsersSessions : GetDashboard(s)
    \/ \E s \in UsersSessions : PostLogout(s)
    \/ Sweep
    \/ Tick

SpecUsers == Init /\ [][NextUsers]_vars

(***************************************************************************)
(* The long run.  SpecLive follows one session over a clock that goes on   *)
(* past the expiry of every record stored up to OTP_TTL + 1 and past the   *)
(* run of the clean-up that follows it.  The clock keeps advancing and the *)
(* setInterval callback keeps firing when it is due: weak fairness of both.*)
(***************************************************************************)
LiveSessions == {"s1"}
LiveInstants == Instants \cup {2 * OTP_TTL + 1, 2 * OTP_TTL + 1 + SWEEP_PERIOD}

TickLive ==
    /\ \E t \in LiveInstants : t > now /\ now' = t
    /\ last' = Event("tick", "", "", "", <<>>, "", None)
    /\ UNCHANGED <<nextSweep, otpStore, session, issued, valids, used>>

NextLive ==
    \/ \E s \in LiveSessions, r \in RandomDraws, ok \in BOOLEAN :
          PostLoginAccepted(s, StoreUser, GoodPw, r, ok)
    \/ \E s \in LiveSessions, c \in SubmittedCodes : PostVerifyOtp(s, c)
    \/ \E s \in LiveSessions : PostLogout(s)
    \/ Sweep
    \/ TickLive

SpecLive == Init /\ [][NextLive]_vars /\ WF_vars(TickLive) /\ WF_vars(Sweep)

(***************************************************************************)
(* Properties.  In a step, last' is the request made in that step, last'.key*)
(* the otpKey its session held when the request arrived, and the unprimed  *)
(* variables are the state the request found.                              *)
(***************************************************************************)
VerifyStep == last'.op = "verify"
LoginStored == last'.op = "login" /\ last'.key # None

\* C1: a code is single-use.  Once a POST /verify-otp has succeeded with a
\* code on a key, every later POST /verify-otp that presents the same code
\* on the same key is answered NotFound, whatever happened in between.
C1_SingleUse ==
    [][ (VerifyStep /\ used # None /\ last'.key = Some(used[1][1]) /\ last'.code = used[1][2])
        => last'.outcome = "NotFound" ]_vars

\* C2 as stated: a verification that succeeds at time t has t < expires, and
\* a verification of an existing record at t >= expires is answered Expired
\* whatever the code.
C2_ExpiryStrict ==
    [][ (VerifyStep /\ last'.key # None /\ session[last'.sess].pendingAuth # None
                    /\ StoreHas(otpStore, last'.key[1]))
        => /\ last'.outcome = "Valid" => now < otpStore[last'.key[1]].expires
           /\ now >= otpStore[last'.key[1]].expires => last'.outcome = "Expired" ]_vars

\* C2, amended: a verification that succeeds at time t has t <= expires, and
\* a verification of an existing record at t > expires is answered Expired
\* whatever the code and deletes the record.
C2_Expiry ==
    [][ (VerifyStep /\ last'.key # None /\ session[last'.sess].pendingAuth # None
                    /\ StoreHas(otpStore, last'.key[1]))
        => /\ last'.outcome = "Valid" => now <= otpStore[last'.key[1]].expires
           /\ now > otpStore[last'.key[1]].expires
                => last'.outcome = "Expired" /\ ~StoreHas(otpStore', last'.key[1]) ]_vars

\* a code accepted at the very instant it expires
C2_Witness ==
    /\ last.op = "verify" /\ last.outcome = "Valid"
    /\ now = OTP_TTL /\ last.key = Some(OtpKey("aaaaaaaaaaaaaaaaaaa", 0))

\* C3: no record is validated twice.  A POST /verify-otp that succeeds finds
\* a record no earlier request has succeeded on, removes it in the same
\* step, and changes no session but its own: of two requests with the right
\* code on one key at most one succeeds, and one session is authenticated.
C3_OneValidPerRecord ==
    [][ (VerifyStep /\ last'.outcome = "Valid")
        => /\ valids[last'.key[1]] = 0
           /\ ~StoreHas(otpStore', last'.key[1])
           /\ \A s \in Sessions \ {last'.sess} : session'[s] = session[s] ]_vars

\* the loser of the race: the right code on the key another request has
\* just succeeded on, answered NotFound
C3_Witness ==
    /\ last.op = "verify" /\ last.outcome = "NotFound"
    /\ used # None /\ last.key = Some(used[1][1]) /\ last.code = used[1][2]

\* C4: issue never collides.  The key a POST /login stores its record under
\* is not a key of otpStore, and otpStore has one more entry afterwards.
C4_NoCollision ==
    [][ LoginStored
        => /\ ~StoreHas(otpStore, last'.key[1])
           /\ Cardinality(DOMAIN otpStore') = Cardinality(DOMAIN otpStore) + 1 ]_vars

\* C5: when the delivery of the code fails, the session ends Anonymous with
\* pendingAuth and otpKey unset.
C5_DeliveryFailureDiscards ==
    (last.op = "login" /\ last.outcome = "sendFailed")
    => /\ Phase(session[last.sess]) = "anonymous"
       /\ session[last.sess].pendingAuth = None
       /\ session[last.sess].otpKey = None

\* C6: a POST /verify-otp of a session in PendingSecondFactor answered
\* Expired or NotFound leaves the session Anonymous with pendingAuth and
\* otpKey unset, and Expired also removes the record.
C6_ExpiredOrNotFoundResets ==
    [][ (VerifyStep /\ last'.outcome \in {"Expired", "NotFound"}
                    /\ Phase(session[last'.sess]) = "pendingSecondFactor")
        => /\ Phase(session'[last'.sess]) = "anonymous"
           /\ session'[last'.sess].pendingAuth = None
           /\ session'[last'.sess].otpKey = None
           /\ last'.outcome = "Expired" => ~StoreHas(otpStore', last'.key[1]) ]_vars

\* C7: in every session the pending key is set exactly in
\* PendingSecondFactor and the authenticated username exactly in
\* Authenticated, so no session is authenticated and pending at once.
C7_PhaseFields ==
    \A s \in Sessions :
        /\ session[s].otpKey # None <=> Phase(session[s]) = "pendingSecondFactor"
        /\ session[s].username # None <=> Phase(session[s]) = "authenticated"
        /\ ~(session[s].authenticated /\ session[s].pendingAuth # None)

\* C8: a wrong code on a live, unexpired record changes neither otpStore nor
\* any session, and the right code posted next, at any instant up to the
\* expiry, succeeds.
C8_MismatchKeepsAll ==
    [][ (VerifyStep /\ last'.outcome = "Mismatch")
        => /\ otpStore' = otpStore /\ session' = session
           /\ StoreHas(otpStore', last'.key[1])
           /\ last'.code # otpStore'[last'.key[1]].otp
           /\ \A t \in Instants :
                 (now <= t /\ t < otpStore'[last'.key[1]].expires)
                 => VerifyOutcome(session'[last'.sess], otpStore',
                                  otpStore'[last'.key[1]].otp, t) = "Valid" ]_vars

\* a wrong code has just been refused and the record is still there, live
C8_Witness ==
    /\ last.op = "verify" /\ last.outcome = "Mismatch"
    /\ StoreHas(otpStore, last.key[1])
    /\ now < otpStore[last.key[1]].expires
    /\ session[last.sess].otpKey = last.key

\* the strings of four decimal digits that read 1000 .. 9999
FourDigitCodes == { DecStr(n) : n \in 1000 .. 9999 }

\* C9: a POST /login that passes validation, from a session that is not
\* already authenticated, writes exactly one record, under the key the
\* session then holds: a four-digit code, the submitted username, expiry
\* 60 s after now, hence live; every other record is untouched; and the
\* session is in PendingSecondFactor with the submitted username.
C9_LoginIssuesOneRecord ==
    [][ (LoginStored /\ ~session[last'.sess].authenticated)
        => /\ DOMAIN otpStore' = DOMAIN otpStore \cup {last'.key[1]}
           /\ \A k \in DOMAIN otpStore \ {last'.key[1]} : otpStore'[k] = otpStore[k]
           /\ otpStore'[last'.key[1]].otp \in FourDigitCodes
           /\ otpStore'[last'.key[1]].username = last'.user
           /\ otpStore'[last'.key[1]].expires = now + 60 * 1000
           /\ VerifyOutcome(session'[last'.sess], otpStore',
                            otpStore'[last'.key[1]].otp, now) = "Valid"
           /\ Phase(session'[last'.sess]) = "pendingSecondFactor"
           /\ session'[last'.sess].pendingAuth[1].username = last'.user
           /\ session'[last'.sess].otpKey = last'.key
           /\ \A s \in Sessions \ {last'.sess} : session'[s] = session[s] ]_vars

\* the code has been sent and the session waits for it
C9_Witness ==
    /\ last.op = "login" /\ last.outcome = "redirectVerify"
    /\ Phase(session[last.sess]) = "pendingSecondFactor"
    /\ StoreHas(otpStore, last.key[1])
    /\ otpStore[last.key[1]].otp = "9999"

\* the sequences of four decimal digits
DigitChars == {"0", "1", "2", "3", "4", "5", "6", "7", "8", "9"}
FourDigitSeqs == [1 .. 4 -> DigitChars]

\* C10: a POST /login whose username is empty or has 20 or more characters,
\* or whose password is empty or is not exactly four digits, is answered
\* with a validation error and changes neither otpStore nor any session;
\* every other POST /login gets past validation.
C10_GuardFailureChangesNothing ==
    [][ last'.op = "login"
        => IF \/ last'.user = "" \/ Len(last'.user) >= 20
              \/ last'.pw = <<>> \/ last'.pw \notin FourDigitSeqs
           THEN /\ last'.outcome \in {"required", "usernameTooLong", "passwordFormat"}
                /\ otpStore' = otpStore /\ session' = session
           ELSE last'.outcome \in {"redirectVerify", "sendFailed"} ]_vars

\* a username of 20 characters refused while a pending attempt and its record
\* exist, which the refusal left as they were
C10_Witness ==
    /\ last.op = "login" /\ Len(last.user) = 20 /\ last.pw = GoodPw
    /\ last.outcome = "usernameTooLong"
    /\ \E s \in Sessions : /\ session[s].otpKey # None
                            /\ StoreHas(otpStore, session[s].otpKey[1])
                            /\ Len(otpStore[session[s].otpKey[1]].username) = 19

\* C11: a POST /verify-otp that succeeds leaves its session Authenticated,
\* with the username the pending attempt held and the login time now, with
\* pendingAuth and otpKey unset, and the record it consumed gone.
C11_ValidAuthenticates ==
    [][ (VerifyStep /\ last'.outcome = "Valid")
        => /\ session[last'.sess].pendingAuth # None
           /\ Phase(session'[last'.sess]) = "authenticated"
           /\ session'[last'.sess].username = Some(session[last'.sess].pendingAuth[1].username)
           /\ session'[last'.sess].loginTime = Some(now)
           /\ session'[last'.sess].pendingAuth = None
           /\ session'[last'.sess].otpKey = None
           /\ StoreHas(otpStore, last'.key[1])
           /\ ~StoreHas(otpStore', last'.key[1]) ]_vars

\* a session that was in PendingSecondFactor authenticated at the instant
\* its code expires
C11_Witness ==
    /\ last.op = "verify" /\ last.outcome = "Valid"
    /\ session[last.sess].authenticated
    /\ session[last.sess].loginTime = Some(OTP_TTL)
    /\ session[last.sess].username = Some("aaaaaaaaaaaaaaaaaaa")

\* C12: GET /dashboard is served exactly when the session is Authenticated;
\* in Anonymous and in PendingSecondFactor it is answered by the redirect to
\* /login; in no case does it change otpStore or a session.
C12_DashboardOnlyAuthenticated ==
    [][ last'.op = "dashboard"
        => /\ last'.outcome = "dashboard" <=> Phase(session[last'.sess]) = "authenticated"
           /\ Phase(session[last'.sess]) \in {"anonymous", "pendingSecondFactor"}
                => last'.outcome = "redirectLogin"
           /\ otpStore' = otpStore /\ session' = session ]_vars

\* the dashboard refused to a session that has passed the first factor only
C12_Witness ==
    /\ last.op = "dashboard" /\ last.outcome = "redirectLogin"
    /\ Phase(session[last.sess]) = "pendingSecondFactor"
    /\ StoreHas(otpStore, session[last.sess].otpKey[1])

\* C13: POST /logout leaves the session Anonymous with username and
\* loginTime unset, leaves an Anonymous session as it was, gives after a
\* second logout the state the first one gave, and changes neither otpStore
\* nor another session.
C13_LogoutIdempotent ==
    [][ last'.op = "logout"
        => /\ Phase(session'[last'.sess]) = "anonymous"
           /\ session'[last'.sess].username = None
           /\ session'[last'.sess].loginTime = None
           /\ Phase(session[last'.sess]) = "anonymous" => session'[last'.sess] = session[last'.sess]
           /\ SessionAfterLogout(session'[last'.sess]) = session'[last'.sess]
           /\ otpStore' = otpStore
           /\ \A s \in Sessions \ {last'.sess} : session'[s] = session[s] ]_vars

\* a logout after the one record issued was used to authenticate: nobody is
\* authenticated any more
C13_Witness ==
    /\ last.op = "logout" /\ issued = 1 /\ used # None
    /\ \A s \in Sessions : session[s] = EmptySession

\* C14: the sweep commutes with issue and consume.  In every state in which
\* the clean-up timer is due, for every session and every code, running the
\* clean-up and then POST /verify-otp gives the same otpStore, the same
\* outcome and the same session as running them in the other order; and
\* storing a new record before or after the clean-up gives the same otpStore.
C14_SweepCommutes ==
    now >= nextSweep =>
      /\ \A s \in Sessions, c \in SubmittedCodes :
           LET o1 == VerifyOutcome(session[s], otpStore, c, now)
               swept == SweepStore(otpStore, now)
               o2 == VerifyOutcome(session[s], swept, c, now)
           IN  /\ SweepStore(StoreAfterVerify(session[s], otpStore, o1), now)
                     = StoreAfterVerify(session[s], swept, o2)
               /\ o1 = o2
               /\ SessionAfterVerify(session[s], o1, now) = SessionAfterVerify(session[s], o2, now)
      /\ \A c \in Credentials, r \in RandomDraws :
           LoginGuard(c[1], c[2]) = "ok"
           => SweepStore(StoreSet(otpStore, OtpKey(c[1], now), NewRecord(c[1], r, now)), now)
                = StoreSet(SweepStore(otpStore, now), OtpKey(c[1], now), NewRecord(c[1], r, now))

\* C15: the sweep is idempotent.  Running the clean-up at an instant on the
\* registry the clean-up at that instant has left removes nothing more.
C15_SweepIdempotent ==
    \A t \in StoreNows :
        SweepStore(SweepStore(otpStore, t), t) = SweepStore(otpStore, t)

\* the clean-up has just emptied a registry of two expired records, which
\* two sessions are still waiting on
C15_Witness ==
    /\ last.op = "sweep" /\ issued = 2 /\ otpStore = << >>
    /\ \E s \in Sessions : session[s].otpKey = Some(OtpKey(StoreUser, 0))
    /\ \E s \in Sessions : session[s].otpKey = Some(OtpKey(StoreUser, 1))

\* C18: the sweep's deletion condition.  A run of the clean-up at time now
\* deletes exactly the records whose expires is below now and leaves every
\* other record as it was, so no record with expires < now is left; and no
\* record it deletes is one for which POST /verify-otp with the record's own
\* code, made at that same time by a session waiting on it, would have
\* succeeded.
C18_SweepDeletesExactlyExpired ==
    [][last'.op = "sweep" =>
         /\ DOMAIN otpStore' = {k \in DOMAIN otpStore : ~(otpStore[k].expires < now)}
         /\ \A k \in DOMAIN otpStore' :
                otpStore'[k] = otpStore[k] /\ ~(otpStore'[k].expires < now)
         /\ \A k \in DOMAIN otpStore \ DOMAIN otpStore' :
                VerifyOutcome([EmptySession EXCEPT
                                  !.pendingAuth = Some([username |-> otpStore[k].username,
                                                        timestamp |-> 0]),
                                  !.otpKey = Some(k)],
                              otpStore, otpStore[k].otp, now) # "Valid"]_vars

\* at the instant the second record expires, the clean-up has removed the
\* first record and kept the second; each session still waits on its record
C18_Witness ==
    /\ last.op = "sweep" /\ issued = 2 /\ now = OTP_TTL + 1
    /\ DOMAIN otpStore = {OtpKey(StoreUser, 1)}
    /\ session["s1"].otpKey = Some(OtpKey(StoreUser, 0))
    /\ session["s2"].otpKey = Some(OtpKey(StoreUser, 1))

\* C16: a session holds at most one pending attempt.  When a session that is
\* waiting for its code, and whose record is in otpStore, passes POST /login
\* again, its otpKey becomes the key of the new record and the record it was
\* waiting on stays in otpStore as it was.
C16_ResubmitKeepsPreviousRecord ==
    [][\A s \in Sessions :
          ( /\ LoginStored /\ last'.sess = s
            /\ Phase(session[s]) = "pendingSecondFactor"
            /\ session[s].otpKey # None
            /\ StoreHas(otpStore, session[s].otpKey[1]) )
          => /\ session'[s].otpKey = last'.key
             /\ StoreHas(otpStore', session[s].otpKey[1])
             /\ otpStore'[session[s].otpKey[1]] = otpStore[session[s].otpKey[1]]]_vars

\* C17: Authenticated is terminal until logout.  In every step other than
\* the session's own POST /logout, a session that is authenticated stays
\* authenticated and keeps its username.
C17_AuthenticatedUntilLogout ==
    [][\A s \in Sessions :
          ( /\ Phase(session[s]) = "authenticated"
            /\ ~(last'.op = "logout" /\ last'.sess = s) )
          => /\ Phase(session'[s]) = "authenticated"
             /\ session'[s].username = session[s].username]_vars

\* C20: a session is authenticated only through its own second factor.  In
\* every step that sets a session's authenticated flag, or that takes the
\* success branch of POST /verify-otp for it, the step is that session's
\* POST /verify-otp, the session held an otpKey, otpStore held a record
\* under that key, the posted code is that record's code, the clock is not
\* past the record's expires, and the username the session gets is the
\* record's username.
C20_OwnSecondFactor ==
    [][\A s \in Sessions :
          ( /\ session'[s].authenticated
            /\ \/ ~session[s].authenticated
               \/ (VerifyStep /\ last'.sess = s /\ last'.outcome = "Valid") )
          => /\ VerifyStep /\ last'.sess = s
             /\ session[s].otpKey # None
             /\ StoreHas(otpStore, session[s].otpKey[1])
             /\ last'.code = otpStore[session[s].otpKey[1]].otp
             /\ now <= otpStore[session[s].otpKey[1]].expires
             /\ session'[s].username = Some(otpStore[session[s].otpKey[1]].username)]_vars

\* the session has just been authenticated as the second user, at the very
\* instant that user's code expires
C20_Witness ==
    /\ last.op = "verify" /\ last.sess = "s1" /\ last.outcome = "Valid"
    /\ session["s1"].authenticated /\ session["s1"].username = Some("bob")
    /\ now = OTP_TTL

\* C19: every record is eventually removed.  With the clock advancing and
\* the clean-up firing, a record stored under any key at one of the instants
\* up to OTP_TTL + 1 is eventually absent from otpStore, whatever became of
\* the session that stored it.
C19_EveryRecordRemoved ==
    \A t \in Instants :
        StoreHas(otpStore, OtpKey(StoreUser, t)) ~> ~StoreHas(otpStore, OtpKey(StoreUser, t))

\* the clean-up has emptied the registry although no code was ever accepted
\* and the session, whose mail was not delivered, still holds the key of a
\* record stored at OTP_TTL + 1
C19_Witness ==
    /\ last.op = "sweep" /\ otpStore = << >> /\ issued >= 2 /\ used = None
    /\ session["s1"].otpKey = Some(OtpKey(StoreUser, OTP_TTL + 1))

\* C21: no session is authenticated by a code whose delivery failed.  When
\* POST /login of a session answered that the mail could not be sent, the
\* POST /verify-otp of that session that follows it does not look up the
\* record that login stored, and does not set the session's authenticated
\* flag.
C21_FailedDeliveryNeverAuthenticates ==
    [][\A s \in Sessions :
          ( /\ last.op = "login" /\ last.outcome = "sendFailed" /\ last.sess = s
            /\ VerifyStep /\ last'.sess = s )
          => /\ last'.key # last.key
             /\ session'[s].authenticated => session[s].authenticated]_vars

====
